---- MODULE Spec2Model ----
(***************************************************************************)
(* pennylane/templates/parameters.py: parameters_cvqnnlayers and           *)
(* parameters_cvqnnlayer, run by callers that share numpy's process-wide   *)
(* generator (np.random).  A call is a sequence of statements: the         *)
(* optional reseed (lines 59-60 / 98-99), the two local computations       *)
(* (61-62 / 101-102), eleven sampling statements (64-74 / 104-114) and the *)
(* return (76 / 116).  Each statement is one step, so that calls of        *)
(* different threads can interleave on the generator.                      *)
(*                                                                         *)
(* Values are exact rationals with denominator UnitDen, stored as their    *)
(* numerators.  The generator is a deterministic state machine on          *)
(* 0..GenMod-1 that consumes one state per sampled element.                *)
(***************************************************************************)
EXTENDS Integers, Sequences, FiniteSets, TLC

\* ---------------------------------------------------------------- bounds
MaxLayers == 2
MaxModes == 2
MaxSeed == 1
GenMod == 4
UnitDen == 2

Threads == {1, 2}

\* seed=None (line 38 / 79); also the n_layers field of a single-layer call
None == -9

UniformMins == {0, 1}
UniformMaxs == {0, 1}
Means == {0, 1}
Stds == {-1, 1}
Seeds == {None} \cup (0..MaxSeed)

\* ------------------------------------------------------- call arguments
MkArgs(v, nl, nm, umin, umax, mu, sd, s) ==
    [variant |-> v, n_layers |-> nl, n_modes |-> nm, uniform_min |-> umin,
     uniform_max |-> umax, mean |-> mu, std |-> sd, seed |-> s]

NoArgs == MkArgs("layer", None, 0, 0, 0, 0, 0, None)

ArgSet ==
    { MkArgs("layers", nl, nm, umin, umax, mu, sd, s) :
        nl \in -1..MaxLayers, nm \in -1..MaxModes, umin \in UniformMins,
        umax \in UniformMaxs, mu \in Means, sd \in Stds, s \in Seeds }
    \cup
    { MkArgs("layer", None, nm, umin, umax, mu, sd, s) :
        nm \in -1..MaxModes, umin \in UniformMins,
        umax \in UniformMaxs, mu \in Means, sd \in Stds, s \in Seeds }

\* seeded calls with the default distribution arguments, for concurrent callers
ConcArgSet ==
    { MkArgs("layers", 1, nm, 0, 1, 0, 1, s) : nm \in 1..MaxModes, s \in 0..MaxSeed }
    \cup
    { MkArgs("layer", None, nm, 0, 1, 0, 1, s) : nm \in 1..MaxModes, s \in 0..MaxSeed }

\* ------------------------------------------------ numpy's np.random
\* The attributes of numpy.random that sample or seed; it has no "rnd".
NpRandomAttrs ==
    {"seed", "normal", "uniform", "rand", "randn", "randint", "random",
     "random_sample", "ranf", "sample", "standard_normal"}

\* np.random.seed(s): the state is a function of the seed alone
SeedState(s) == s % GenMod

\* the state after n elements were sampled from state g
Advance(g, n) == (g + n) % GenMod

\* the standard normal sample produced from state g
Gauss(g) == (g % 3) - 1

\* the unit sample in [0,1) produced from state g, as a numerator over UnitDen
Unit(g) == g % UnitDen

RECURSIVE Size(_)
Size(shape) == IF shape = <<>> THEN 1 ELSE Head(shape) * Size(Tail(shape))

\* np.random.normal(loc, scale, size): ValueError for scale < 0 or a negative
\* dimension, and then the generator is untouched
Normal(g, shape, loc, scale) ==
    IF scale < 0 \/ \E i \in 1..Len(shape) : shape[i] < 0
    THEN [err |-> "ValueError", gen |-> g, data |-> <<>>]
    ELSE [err |-> "none", gen |-> Advance(g, Size(shape)),
          data |-> [i \in 1..Size(shape) |-> loc + scale * Gauss(Advance(g, i - 1))]]

\* np.random.rnd(size): the attribute lookup comes first
Rnd(g, shape) ==
    IF "rnd" \notin NpRandomAttrs
    THEN [err |-> "AttributeError", gen |-> g, data |-> <<>>]
    ELSE IF \E i \in 1..Len(shape) : shape[i] < 0
    THEN [err |-> "ValueError", gen |-> g, data |-> <<>>]
    ELSE [err |-> "none", gen |-> Advance(g, Size(shape)),
          data |-> [i \in 1..Size(shape) |-> Unit(Advance(g, i - 1))]]

\* ------------------------------------------------ the two functions
\* "if seed:" in place of "if seed is not None:"
SeedStepTruthy(g, seed) == IF seed # None /\ seed # 0 THEN SeedState(seed) ELSE g

\* reseeds on every call, with 0 when no seed is given
SeedStepAlways(g, seed) == SeedState(IF seed = None THEN 0 ELSE seed)

\* lines 59-60 / 98-99
SeedStep(g, seed) == IF seed # None THEN SeedState(seed) ELSE g

\* line 61 / 101
NIf(n_modes) == (n_modes * (n_modes - 1)) \div 2

\* line 62 / 102
Interval(uniform_min, uniform_max) == uniform_max - uniform_min

Stmt(r, ds, dm) == [role |-> r, dist |-> ds, dim |-> dm]

\* lines 64-74
StackStmts ==
    << Stmt("theta_1", "normal", "n_if"), Stmt("phi_1", "normal", "n_if"),
       Stmt("varphi_1", "normal", "n_modes"), Stmt("r", "rnd", "n_modes"),
       Stmt("phi_r", "normal", "n_modes"), Stmt("theta_2", "normal", "n_if"),
       Stmt("phi_2", "normal", "n_if"), Stmt("varphi_2", "normal", "n_modes"),
       Stmt("a", "rnd", "n_modes"), Stmt("phi_a", "normal", "n_modes"),
       Stmt("k", "rnd", "n_modes") >>

\* varphi_1 sized by n_if
SingleStmtsSwapped ==
    << Stmt("theta_1", "normal", "n_if"), Stmt("phi_1", "normal", "n_if"),
       Stmt("varphi_1", "normal", "n_if"), Stmt("r", "rnd", "n_modes"),
       Stmt("phi_r", "normal", "n_modes"), Stmt("theta_2", "normal", "n_if"),
       Stmt("phi_2", "normal", "n_if"), Stmt("varphi_2", "normal", "n_modes"),
       Stmt("a", "rnd", "n_modes"), Stmt("phi_a", "normal", "n_modes"),
       Stmt("k", "rnd", "n_modes") >>

\* lines 104-114
SingleStmts ==
    << Stmt("theta_1", "normal", "n_if"), Stmt("phi_1", "normal", "n_if"),
       Stmt("varphi_1", "normal", "n_modes"), Stmt("r", "rnd", "n_modes"),
       Stmt("phi_r", "normal", "n_modes"), Stmt("theta_2", "normal", "n_if"),
       Stmt("phi_2", "normal", "n_if"), Stmt("varphi_2", "normal", "n_modes"),
       Stmt("a", "rnd", "n_modes"), Stmt("phi_a", "normal", "n_modes"),
       Stmt("k", "rnd", "n_modes") >>

StmtsOf(a) == IF a.variant = "layers" THEN StackStmts ELSE SingleStmts

\* size=(n_layers, d - 1)
StackShapeShort(n_layers, d) == <<n_layers, d - 1>>

\* size=(n_layers, d), lines 64-74
StackShape(n_layers, d) == <<n_layers, d>>

\* size=(d, ), lines 104-114
SingleShape(d) == <<d>>

ShapeOf(a, d) ==
    IF a.variant = "layers" THEN StackShape(a.n_layers, d) ELSE SingleShape(d)

\* One sampling statement, number i, run with the generator in state g:
\* the error raised (or "none"), the generator afterwards, the array bound.
ExecStmt(a, n_if, interval, g, i) ==
    LET s == StmtsOf(a)[i]
        shape == ShapeOf(a, IF s.dim = "n_if" THEN n_if ELSE a.n_modes)
        r == IF s.dist = "normal" THEN Normal(g, shape, a.mean, a.std)
             ELSE Rnd(g, shape)
    IN [err |-> r.err, gen |-> r.gen,
        arr |-> [role |-> s.role, dist |-> s.dist, shape |-> shape,
                 data |-> IF s.dist = "normal"
                          THEN [j \in 1..Len(r.data) |-> r.data[j] * UnitDen]
                          ELSE [j \in 1..Len(r.data) |->
                                  r.data[j] * interval + a.uniform_min * UnitDen]]]

\* ---------------------------------------------------------------- state
VARIABLES
    gen,        \* the state of the process-wide generator
    pc,         \* per thread: "idle", "seed", "shape", "draw", "done"
    idx,        \* per thread: the number of the sampling statement to run next
    args,       \* per thread: the arguments of the call in progress
    n_if,       \* per thread: the local n_if
    interval,   \* per thread: the local interval
    arrays,     \* per thread: the arrays bound so far, in statement order
    outcome,    \* per thread: "none", "returned", or the error raised
    gen0,       \* per thread: the generator's state when a call without seed
                \* was entered (0 for a seeded call, which does not use it)
    disturbed   \* per thread: another thread used the generator between this
                \* call's seed statement and its last sampling statement

vars == <<gen, pc, idx, args, n_if, interval, arrays, outcome, gen0, disturbed>>

Init ==
    /\ gen \in 0..(GenMod - 1)
    /\ pc = [t \in Threads |-> "idle"]
    /\ idx = [t \in Threads |-> 1]
    /\ args = [t \in Threads |-> NoArgs]
    /\ n_if = [t \in Threads |-> 0]
    /\ interval = [t \in Threads |-> 0]
    /\ arrays = [t \in Threads |-> <<>>]
    /\ outcome = [t \in Threads |-> "none"]
    /\ gen0 = [t \in Threads |-> 0]
    /\ disturbed = [t \in Threads |-> FALSE]

\* the threads whose runs a use of the generator by t falls into
Disturbs(t) == {u \in Threads \ {t} : pc[u] \in {"shape", "draw"}}

\* the function is entered with arguments a
Enter(t, a) ==
    /\ pc[t] = "idle"
    /\ pc' = [pc EXCEPT ![t] = "seed"]
    /\ args' = [args EXCEPT ![t] = a]
    /\ gen0' = [gen0 EXCEPT ![t] = IF a.seed = None THEN gen ELSE 0]
    /\ UNCHANGED <<gen, idx, n_if, interval, arrays, outcome, disturbed>>

\* a caller calls one of the two functions while no other call is running
Call ==
    /\ \A u \in Threads : pc[u] = "idle"
    /\ \E t \in Threads, a \in ArgSet : Enter(t, a)

\* a thread calls one of the two functions, whatever the other threads do
ConcCall ==
    \E t \in Threads :
        /\ pc[t] = "idle"
        /\ \E a \in ConcArgSet : Enter(t, a)

\* lines 59-60 / 98-99
SeedStmt(t) ==
    /\ pc[t] = "seed"
    /\ gen' = SeedStep(gen, args[t].seed)
    /\ pc' = [pc EXCEPT ![t] = "shape"]
    /\ disturbed' = [u \in Threads |->
                       IF u \in Disturbs(t) /\ args[t].seed # None
                       THEN TRUE ELSE disturbed[u]]
    /\ UNCHANGED <<idx, args, n_if, interval, arrays, outcome, gen0>>

\* lines 61-62 / 101-102
ShapeStmt(t) ==
    /\ pc[t] = "shape"
    /\ n_if' = [n_if EXCEPT ![t] = NIf(args[t].n_modes)]
    /\ interval' = [interval EXCEPT
                      ![t] = Interval(args[t].uniform_min, args[t].uniform_max)]
    /\ pc' = [pc EXCEPT ![t] = "draw"]
    /\ UNCHANGED <<gen, idx, args, arrays, outcome, gen0, disturbed>>

\* one of lines 64-74 / 104-114, and the return of line 76 / 116 after the last
SampleStmt(t, dist) ==
    /\ pc[t] = "draw"
    /\ StmtsOf(args[t])[idx[t]].dist = dist
    /\ LET r == ExecStmt(args[t], n_if[t], interval[t], gen, idx[t])
       IN /\ gen' = r.gen
          /\ IF r.err # "none"
             THEN /\ outcome' = [outcome EXCEPT ![t] = r.err]
                  /\ pc' = [pc EXCEPT ![t] = "done"]
                  /\ UNCHANGED <<idx, arrays>>
             ELSE /\ arrays' = [arrays EXCEPT ![t] = Append(@, r.arr)]
                  /\ IF idx[t] = Len(StmtsOf(args[t]))
                     THEN /\ outcome' = [outcome EXCEPT ![t] = "returned"]
                          /\ pc' = [pc EXCEPT ![t] = "done"]
                          /\ UNCHANGED idx
                     ELSE /\ idx' = [idx EXCEPT ![t] = @ + 1]
                          /\ UNCHANGED <<pc, outcome>>
          /\ disturbed' = [u \in Threads |->
                             IF u \in Disturbs(t) /\ r.gen # gen
                             THEN TRUE ELSE disturbed[u]]
    /\ UNCHANGED <<args, n_if, interval, gen0>>

NormalStmt(t) == SampleStmt(t, "normal")

RndStmt(t) == SampleStmt(t, "rnd")

\* the caller has the list or the exception; the frame is gone
Finish(t) ==
    /\ pc[t] = "done"
    /\ pc' = [pc EXCEPT ![t] = "idle"]
    /\ idx' = [idx EXCEPT ![t] = 1]
    /\ args' = [args EXCEPT ![t] = NoArgs]
    /\ n_if' = [n_if EXCEPT ![t] = 0]
    /\ interval' = [interval EXCEPT ![t] = 0]
    /\ arrays' = [arrays EXCEPT ![t] = <<>>]
    /\ outcome' = [outcome EXCEPT ![t] = "none"]
    /\ gen0' = [gen0 EXCEPT ![t] = 0]
    /\ disturbed' = [disturbed EXCEPT ![t] = FALSE]
    /\ UNCHANGED gen

Step ==
    \E t \in Threads :
        \/ SeedStmt(t)
        \/ ShapeStmt(t)
        \/ NormalStmt(t)
        \/ RndStmt(t)
        \/ Finish(t)

Next == Call \/ Step

NextConc == ConcCall \/ Step

\* calls one after another
Spec == Init /\ [][Next]_vars

\* calls of two threads interleaved statement by statement
SpecConc == Init /\ [][NextConc]_vars

\* ------------------------------------------- a whole call, run alone
\* statements i..11 and the return, run without interruption from state g
RECURSIVE RunStmts(_, _, _, _, _, _)
RunStmts(a, nif, iv, g, i, arrs) ==
    IF i > Len(StmtsOf(a))
    THEN [outcome |-> "returned", gen |-> g, arrays |-> arrs]
    ELSE LET r == ExecStmt(a, nif, iv, g, i)
         IN IF r.err # "none"
            THEN [outcome |-> r.err, gen |-> r.gen, arrays |-> arrs]
            ELSE RunStmts(a, nif, iv, r.gen, i + 1, Append(arrs, r.arr))

\* lines 61-76 / 101-116 run alone with the generator in state g
RunFrom(a, g) ==
    RunStmts(a, NIf(a.n_modes), Interval(a.uniform_min, a.uniform_max), g, 1, <<>>)

\* ------------------------------------------------- vocabulary of the claims
Done(t) == pc[t] = "done"

Failed(t) == outcome[t] \in {"ValueError", "AttributeError"}

IsStack(a) == a.variant = "layers"

\* mode_count, layer_count positive and std non-negative
Valid(a) == a.n_modes >= 1 /\ (IsStack(a) => a.n_layers >= 1) /\ a.std >= 0

\* the number of elements sampled for the arrays bound so far
RECURSIVE Consumed(_)
Consumed(arrs) ==
    IF arrs = <<>> THEN 0 ELSE Len(Head(arrs).data) + Consumed(Tail(arrs))

\* the state a call's first sampling statement must find: the seed's state, or
\* the state the call was entered in when it has no seed
StartGen(a, g0) == IF a.seed = None THEN g0 ELSE SeedState(a.seed)

RoleOrder ==
    <<"theta_1", "phi_1", "varphi_1", "r", "phi_r", "theta_2", "phi_2",
      "varphi_2", "a", "phi_a", "k">>

\* the positions (from 1) of the roles at indices {0,1,5,6} and {3,8,10}
PairRoles == {1, 2, 6, 7}
UniformRoles == {4, 9, 11}

\* D_i of a request with m modes
TrailingDim(m, i) == IF i \in PairRoles THEN (m * (m - 1)) \div 2 ELSE m

ExpectedShape(a, i) ==
    IF IsStack(a) THEN <<a.n_layers, TrailingDim(a.n_modes, i)>>
    ELSE <<TrailingDim(a.n_modes, i)>>

\* row r (from 0) of a rank-2 array
Row(arr, r) == SubSeq(arr.data, r * arr.shape[2] + 1, (r + 1) * arr.shape[2])

\* ---------------------------------------------------------------- C1
\* C1: every call with positive mode_count and layer_count returns exactly
\* eleven arrays, array i of shape (layer_count, D_i) in the stack variant and
\* (D_i,) in the single-layer variant.
C1_ElevenArraysOfShape ==
    \A t \in Threads :
        Done(t) /\ Valid(args[t]) =>
            /\ outcome[t] = "returned"
            /\ Len(arrays[t]) = 11
            /\ \A i \in 1..11 : arrays[t][i].shape = ExpectedShape(args[t], i)

\* ---------------------------------------------------------------- C2
\* C2: a seeded call returns eleven arrays that are a function of its
\* arguments alone, whatever state the generator was in before the call.
C2_SeededCallReturnsSame ==
    \A t \in Threads :
        Done(t) /\ Valid(args[t]) /\ args[t].seed # None =>
            /\ outcome[t] = "returned"
            /\ Len(arrays[t]) = 11
            /\ arrays[t] = RunFrom(args[t], SeedState(args[t].seed)).arrays

\* ---------------------------------------------------------------- C3
\* the sampler is asked for a negative dimension or a negative scale
NegativeRequest(a) ==
    a.n_modes < 0 \/ (IsStack(a) /\ a.n_layers < 0) \/ a.std < 0

C4_NoPartialFailure ==
    \A t \in Threads : Failed(t) => Consumed(arrays[t]) = 0

\* ---------------------------------------------------------------- C5
\* C5: with a seed, the generator is set to the seed's state before the first
\* sampling statement and only advanced by the call's own samples afterwards;
\* without a seed the call never resets it and samples on from the state it
\* was entered in.
C5_SeedOnceBeforeSampling ==
    \A t \in Threads :
        /\ (pc[t] = "seed" /\ args[t].seed = None) => gen = gen0[t]
        /\ pc[t] \in {"shape", "draw", "done"} =>
               gen = Advance(StartGen(args[t], gen0[t]), Consumed(arrays[t]))

C5_Witness ==
    \E t \in Threads :
        /\ Done(t)
        /\ args[t].seed # None
        /\ Consumed(arrays[t]) > 0
        /\ gen = Advance(SeedState(args[t].seed), Consumed(arrays[t]))

\* ---------------------------------------------------------------- C6
\* C6: a valid call produces the eleven arrays in the role order theta_1 ..
\* k, the roles at indices {3,8,10} sampled uniformly and the others normally.
C6_RoleOrderAndDistributions ==
    \A t \in Threads :
        Done(t) /\ Valid(args[t]) =>
            /\ [i \in 1..Len(arrays[t]) |-> arrays[t][i].role] = RoleOrder
            /\ \A i \in 1..Len(arrays[t]) :
                   arrays[t][i].dist = IF i \in UniformRoles THEN "rnd" ELSE "normal"

\* ---------------------------------------------------------------- C7
\* C7 as stated: a call without seed leaves the generator as it found it.
C7_UnseededCallLeavesGenerator ==
    \A t \in Threads :
        Done(t) /\ args[t].seed = None => gen = gen0[t]

\* C7 amended: a statement of a call changes the generator only by the reseed
\* of a seeded call or by advancing it by exactly the number of elements of
\* the array it samples; a call without seed never resets it.
C7_GeneratorFrame ==
    [][\A t \in Threads :
          /\ (pc[t] = "seed" /\ args[t].seed = None) => gen' = gen
          /\ (pc[t] = "seed" /\ args[t].seed # None) => gen' = SeedState(args[t].seed)
          /\ (pc[t] = "shape" \/ pc[t] = "done") => gen' = gen
          /\ (pc[t] = "draw" /\ arrays'[t] = arrays[t]) => gen' = gen
          /\ (pc[t] = "draw" /\ arrays'[t] # arrays[t]) =>
                 gen' = Advance(gen, Consumed(arrays'[t]) - Consumed(arrays[t]))
      ]_vars

C7_Witness ==
    \E t \in Threads :
        /\ Done(t)
        /\ args[t].seed = None
        /\ Consumed(arrays[t]) > 0
        /\ gen # gen0[t]

\* ---------------------------------------------------------------- C8
\* C8: in a valid call with uniform_min <= uniform_max every element of the
\* arrays at indices {3,8,10} lies in [uniform_min, uniform_max).
C8_UniformRange ==
    \A t \in Threads :
        Done(t) /\ Valid(args[t]) /\ args[t].uniform_min <= args[t].uniform_max =>
            /\ Len(arrays[t]) = 11
            /\ \A i \in UniformRoles : \A j \in 1..Len(arrays[t][i].data) :
                   /\ args[t].uniform_min * UnitDen <= arrays[t][i].data[j]
                   /\ arrays[t][i].data[j] < args[t].uniform_max * UnitDen

StackOfOne(a) ==
    MkArgs("layers", 1, a.n_modes, a.uniform_min, a.uniform_max, a.mean, a.std, a.seed)

SingleOf(a) ==
    MkArgs("layer", None, a.n_modes, a.uniform_min, a.uniform_max, a.mean, a.std, a.seed)

\* single-layer arrays s against stack arrays k: same requests, row 0 equal
SameRequests(s, k) ==
    /\ Len(s) = Len(k)
    /\ \A i \in 1..Len(s) :
           /\ s[i].role = k[i].role
           /\ s[i].dist = k[i].dist
           /\ k[i].shape = <<1>> \o s[i].shape
           /\ Len(s[i].data) = Len(k[i].data)
           /\ s[i].data = Row(k[i], 0)

\* C10: a single-layer call and the stack call with layer_count = 1 and the
\* same other arguments, started from the same generator state, make the same
\* sampling requests in the same order, bind the same values (array i of the
\* one is row 0 of array i of the other), end alike and leave the generator
\* in the same state.
C10_SingleIsStackOfOne ==
    \A t \in Threads :
        /\ (Done(t) /\ ~IsStack(args[t])) =>
               LET k == RunFrom(StackOfOne(args[t]), StartGen(args[t], gen0[t]))
               IN /\ SameRequests(arrays[t], k.arrays)
                  /\ outcome[t] = k.outcome
                  /\ gen = k.gen
        /\ (Done(t) /\ IsStack(args[t]) /\ args[t].n_layers = 1) =>
               LET s == RunFrom(SingleOf(args[t]), StartGen(args[t], gen0[t]))
               IN /\ SameRequests(s.arrays, arrays[t])
                  /\ outcome[t] = s.outcome
                  /\ gen = s.gen

C10_Witness ==
    \E t \in Threads :
        /\ Done(t)
        /\ ~IsStack(args[t])
        /\ args[t].n_modes = 2
        /\ args[t].std > 0
        /\ Len(arrays[t]) = 3
        /\ Consumed(arrays[t]) = 4

====
